---- MODULE Spec2Model ----
(***************************************************************************)
(* A model of the streaming session engine of python-tda                  *)
(* (src/tda/streaming.py, src/tda/__init__.py).                           *)
(*                                                                         *)
(* One thread drives the public calls ws_connect, ws_subscribe_to_*,       *)
(* ws_listen and ws_disconnect.  Every call blocks in                     *)
(* run_until_complete(...) on `await ws.recv()`; an action of the model is *)
(* the code that runs between two such waits.  The server and the network *)
(* are the environment: they choose the frame each recv() returns, when a *)
(* connection drops, and when the termination flag is set.                *)
(***************************************************************************)
EXTENDS Naturals, Sequences, FiniteSets, TLC

(***************************************************************************)
(* Bounds of the model.                                                    *)
(***************************************************************************)
\* connections opened in one run (first connects and reconnects together)
MaxConnects == 2
\* services a caller subscribes to in one run
MaxServices == 2

(***************************************************************************)
(* Python's None and an optional value: <<>> is None, <<x>> is x.          *)
(***************************************************************************)
None == <<>>
Some(x) == <<x>>
IsNone(o) == o = <<>>
Val(o) == o[1]

(***************************************************************************)
(* Enumerations of streaming.py.                                           *)
(***************************************************************************)
\* WSService: the member values in definition order.
WSService == <<"ACCT_ACTIVITY", "ADMIN", "CHART_EQUITY", "OPTION", "QUOTE", "TIMESALE_EQUITY">>

\* The services a caller can subscribe to (one ws_subscribe_to_* each).
Domains == {"ACCT_ACTIVITY", "CHART_EQUITY", "OPTION", "QUOTE", "TIMESALE_EQUITY"}

\* The service names that occur on the wire in this model: the member values,
\* a differently cased and padded spelling of one, and a name unknown to the client.
WireNames == {WSService[i] : i \in 1..Len(WSService)} \cup {" quote", "FOO"}

\* str.strip().lower() on the names that occur.
StripLower(name) ==
  CASE name = "ACCT_ACTIVITY"   -> "acct_activity"
    [] name = "ADMIN"           -> "admin"
    [] name = "CHART_EQUITY"    -> "chart_equity"
    [] name = "OPTION"          -> "option"
    [] name = "QUOTE"           -> "quote"
    [] name = "TIMESALE_EQUITY" -> "timesale_equity"
    [] name = " quote"          -> "quote"
    [] OTHER                    -> "foo"

\* An enumeration class: its member values in order, and whether it defines
\* a member called UNSUPPORTED.
WSServiceCls == [values |-> WSService, unsupported |-> FALSE]

\* The outcome of a lookup: the member found, or the exception raised.
Found(v) == [exc |-> "", member |-> v]
Raised(e) == [exc |-> e, member |-> ""]

\* _enum_case_insensitive_search_by_value(cls, name): the first member whose
\* value equals the name ignoring case and surrounding blanks, else
\* cls.UNSUPPORTED, which is an AttributeError (no attribute 'UNSUPPORTED') on
\* a class without that member.
enum_case_insensitive_search_by_value(cls, name) ==
  LET matches == SelectSeq(cls.values, LAMBDA v : StripLower(v) = StripLower(name))
  IN  IF Len(matches) > 0 THEN Found(matches[1])
      ELSE IF cls.unsupported THEN Found("")
      ELSE Raised("AttributeError: UNSUPPORTED")

\* WSService(name): Enum's lookup by value, then _missing_.
WSServiceOf(name) ==
  IF \E i \in 1..Len(WSService) : WSService[i] = name
    THEN Found(name)
    ELSE enum_case_insensitive_search_by_value(WSServiceCls, name)

(***************************************************************************)
(* Subscriptions: what the ws_subscribe_to_* wrappers pass to              *)
(* _ws_subscribe.                                                          *)
(***************************************************************************)
\* fields: the positional indices each wrapper requests, in its order.
FieldsOf(service) ==
  CASE service = "ACCT_ACTIVITY"   -> <<1, 2, 3>>
    [] service = "CHART_EQUITY"    -> <<0, 1, 2, 3, 4, 5, 6, 7>>
    [] service = "OPTION"          -> <<0, 2, 3, 4, 8, 9, 10, 20, 21, 22, 32, 41>>
    [] service = "QUOTE"           -> <<0, 1, 2, 3, 49, 4, 5, 9, 24, 50, 51>>
    [] OTHER                       -> <<0, 1, 2, 3, 4>>

\* process_first_data: every wrapper but the account-activity one passes True.
ProcessFirstDataOf(service) == service # "ACCT_ACTIVITY"

\* The symbol lists callers pass.
SymbolLists == {<<"XYZ">>, <<"ABC", "XYZ">>}

\* The consumers callers pass, <<cb_functions, cb_data>>: one callback or two,
\* with a context for each, with cb_data left out, or with one context short.
Consumers ==
  {<<<<"f">>, Some(<<"x">>)>>, <<<<"g", "f">>, Some(<<"y", "x">>)>>,
   <<<<"f">>, None>>, <<<<"g", "f">>, Some(<<"x">>)>>}

\* The arguments callers pass to the wrapper of a service: <<symbols,
\* cb_functions, cb_data>>.  _ws_subscribe treats every service alike, so the
\* arguments vary in full on one service; the account-activity wrapper takes
\* no symbols.
ArgsOf(service) ==
  CASE service = "QUOTE" ->
         {<<Some(<<"XYZ">>), c[1], c[2]>> : c \in Consumers}
         \cup {<<Some(l), <<"f">>, Some(<<"x">>)>> : l \in SymbolLists}
    [] service = "ACCT_ACTIVITY" ->
         {<<None, <<"f">>, Some(<<"x">>)>>}
    [] OTHER ->
         {<<Some(<<"XYZ">>), <<"f">>, Some(<<"x">>)>>}

\* The registry entry _ws_subscribe stores for a call.
Descriptor(fields, symbols, pfd, cbs, cbdata) ==
  [fields |-> fields, symbols |-> symbols, process_first_data |-> pfd,
   cb_functions |-> cbs, cb_data |-> cbdata]

(***************************************************************************)
(* Frames.  A frame is the JSON object recv() returns: each of the keys    *)
(* notify, response and data is present or not.  A response carries the   *)
(* status code of response[0].content; data is a list of entries, each    *)
(* with an optional service name and an optional content.                  *)
(***************************************************************************)
Codes == {0, 3}

\* The message types of account-activity payloads that occur on the wire.
MessageTypes == {"OrderEntryRequest", "OrderFill ", "UROUT", "ORDERREJECTION", "FOOBAR"}

\* str.strip().upper() on the message types that occur.
StripUpper(t) ==
  CASE t = "OrderEntryRequest" -> "ORDERENTRYREQUEST"
    [] t = "OrderFill "        -> "ORDERFILL"
    [] t = "UROUT"             -> "UROUT"
    [] t = "ORDERREJECTION"    -> "ORDERREJECTION"
    [] OTHER                   -> "FOOBAR"

\* A non-empty content: an account-activity payload carries a message type,
\* the payloads of the other services are told apart by an id.  Its values
\* are ones int() and float() accept.
Payload(id, mtype) == [id |-> id, mtype |-> mtype, coercible |-> TRUE]
PayloadIds == {1, 2}

\* A content with a value that the typecast of its field does not accept
\* (a bid price of "N/A").
Uncoercible(id) == [id |-> id, mtype |-> "", coercible |-> FALSE]

Entry(service, content) == [service |-> service, content |-> content]

\* The data lists the server sends: one entry of a service with a payload,
\* without content, of a message type that is decoded or filtered, under a
\* name in another spelling, under an unknown name, for the ADMIN service,
\* without a service; and lists of two entries, one with a content that
\* holds an uncoercible value ahead of one that decodes.
DataLists ==
  {<<Entry(Some(n), Some(Payload(1, "")))>> :
     n \in {"QUOTE", "CHART_EQUITY", "TIMESALE_EQUITY", " quote", "FOO", "ADMIN"}}
  \cup {<<Entry(Some("ACCT_ACTIVITY"), Some(Payload(1, t)))>> : t \in {"UROUT", "FOOBAR"}}
  \cup {<<Entry(Some("QUOTE"), None)>>, <<Entry(None, Some(Payload(1, "")))>>}
  \cup {<<Entry(Some("QUOTE"), Some(Payload(1, ""))), Entry(Some("QUOTE"), Some(Payload(2, "")))>>,
        <<Entry(Some("QUOTE"), None), Entry(Some("CHART_EQUITY"), Some(Payload(2, "")))>>,
        <<Entry(Some("OPTION"), Some(Payload(1, ""))), Entry(Some("QUOTE"), Some(Payload(2, "")))>>,
        <<Entry(Some("QUOTE"), Some(Uncoercible(1))), Entry(Some("QUOTE"), Some(Payload(2, "")))>>}

Frame(notify, response, data) == [notify |-> notify, response |-> response, data |-> data]

\* The frames the server sends: heartbeats, confirmations, data, a frame with
\* none of the three keys, and frames that carry more than one of them.
Frames ==
  {Frame(TRUE, None, None), Frame(FALSE, None, None)}
  \cup {Frame(FALSE, Some(c), None) : c \in Codes}
  \cup {Frame(FALSE, None, Some(d)) : d \in DataLists}
  \cup {Frame(TRUE, None, Some(<<Entry(Some("QUOTE"), Some(Payload(1, "")))>>)),
        Frame(FALSE, Some(0), Some(<<Entry(Some("QUOTE"), Some(Payload(1, "")))>>)),
        Frame(TRUE, Some(3), None)}

(***************************************************************************)
(* Decoding and dispatch.                                                  *)
(***************************************************************************)
\* The outcome of _ws_distill_data: the exception raised, or None, or the
\* records decoded from the entry (named by its service and payload).
DistillRaised(e) == [exc |-> e, none |-> TRUE, svc |-> "", id |-> 0]
DistillNone == [exc |-> "", none |-> TRUE, svc |-> "", id |-> 0]
Distilled(svc, id) == [exc |-> "", none |-> FALSE, svc |-> svc, id |-> id]

\* _ws_distill_data(data).  A recognised account-activity message type reaches
\* `tda.OrderStatus`, which the tda package does not define (OrderStatus is
\* in tda.api): AttributeError (no attribute 'OrderStatus').  The records of
\* the other services are built with field.typecast(value) and int(value),
\* which raise ValueError on a value they do not accept.
ws_distill_data(data) ==
  IF IsNone(data.service) THEN DistillRaised("KeyError")
  ELSE LET service == WSServiceOf(Val(data.service))
       IN  IF service.exc # "" THEN DistillRaised(service.exc)
           ELSE IF IsNone(data.content) THEN DistillNone
           ELSE IF service.member = "ACCT_ACTIVITY"
             THEN IF StripUpper(Val(data.content).mtype)
                       \in {"ORDERENTRYREQUEST", "ORDERFILL", "UROUT", "ORDERREJECTION"}
                    THEN DistillRaised("AttributeError: OrderStatus")
                    ELSE DistillNone
           ELSE IF service.member \in {"CHART_EQUITY", "OPTION", "QUOTE", "TIMESALE_EQUITY"}
             THEN IF Val(data.content).coercible
                    THEN Distilled(service.member, Val(data.content).id)
                    ELSE DistillRaised("ValueError")
           ELSE DistillNone

\* One callback invocation: cb_function(distilled_data, cb_data[cb_idx]) made
\* for entry number `entry` of the frame.
Call(entry, cb, ctx, dist) ==
  [entry |-> entry, cb |-> cb, ctx |-> ctx, svc |-> dist.svc, id |-> dist.id]

\* for cb_idx, cb_function in enumerate(desc['cb_functions']):
\*     cb_function(distilled_data, desc['cb_data'][cb_idx])
\* from callback number i on.  The context is read before the call is made:
\* cb_data None is a TypeError, a short cb_data an IndexError.  A callback in
\* `raisers` raises when it is called.
RECURSIVE InvokeFrom(_, _, _, _, _)
InvokeFrom(i, desc, dist, entry, raisers) ==
  IF i > Len(desc.cb_functions) THEN [calls |-> <<>>, exc |-> ""]
  ELSE IF IsNone(desc.cb_data) THEN [calls |-> <<>>, exc |-> "TypeError"]
  ELSE IF i > Len(Val(desc.cb_data)) THEN [calls |-> <<>>, exc |-> "IndexError"]
  ELSE LET call == Call(entry, desc.cb_functions[i], Val(desc.cb_data)[i], dist)
       IN  IF desc.cb_functions[i] \in raisers
             THEN [calls |-> <<call>>, exc |-> "CallbackError"]
             ELSE LET rest == InvokeFrom(i + 1, desc, dist, entry, raisers)
                  IN  [calls |-> <<call>> \o rest.calls, exc |-> rest.exc]

\* The body of ws_listen's `for data in response['data']` from entry number k on.
RECURSIVE DispatchFrom(_, _, _, _)
DispatchFrom(k, data, regv, raisers) ==
  IF k > Len(data) THEN [calls |-> <<>>, exc |-> ""]
  ELSE LET rest == DispatchFrom(k + 1, data, regv, raisers)
       IN  IF IsNone(data[k].service) THEN rest
           ELSE LET service == WSServiceOf(Val(data[k].service))
                IN  IF service.exc # "" THEN [calls |-> <<>>, exc |-> service.exc]
                    ELSE IF service.member \notin DOMAIN regv THEN rest
                    ELSE LET dist == ws_distill_data(data[k])
                         IN  IF dist.exc # "" THEN [calls |-> <<>>, exc |-> dist.exc]
                             ELSE IF dist.none THEN rest
                             ELSE LET inv == InvokeFrom(1, regv[service.member], dist, k, raisers)
                                  IN  IF inv.exc # "" THEN inv
                                      ELSE [calls |-> inv.calls \o rest.calls, exc |-> rest.exc]

(***************************************************************************)
(* State.                                                                  *)
(***************************************************************************)
VARIABLES
  pc,          \* where the thread is: "idle" between public calls, else the wait it is in
  ctx,         \* "listen" while ws_listen is on the call stack, else "caller"
  ws,          \* the session handle the caller holds (the dict ws_connect returns)
  reg,         \* the service keys of that dict: service value -> descriptor
  conn,        \* the state of the handle's connection, as the thread has last found it
  nconn,       \* connections opened so far
  flags_done,  \* flags['done']
  connLoc,     \* locals of the ws_connect in progress
  subLoc,      \* arguments and locals of the current (or last) _ws_subscribe
  sent,        \* the control requests sent since the thread was last idle or waiting in _listen
  calls,       \* the callback invocations of the step just taken
  lastFrame,   \* the frame the step just taken consumed, when it is a pass of ws_listen's loop or the login response
  discarded,   \* subscribed services whose records the step just taken consumed without a callback
  result,      \* the public call that ended last, and how; empty while a call runs
  closeCalled, \* ws_disconnect has been called on the session
  arg,         \* the argument of a call of a decoding or lookup function made on its own
  ret,         \* what that call returned or raised; empty until it is made
  other        \* a second thread that calls _ws_subscribe on the handle: its position and locals

vars == <<pc, ctx, ws, reg, conn, nconn, flags_done, connLoc, subLoc, sent, calls, lastFrame,
          discarded, result, closeCalled, arg, ret, other>>

\* The accounts of the user principal, and the account ids callers pass.
PrincipalAccounts == {"acct1"}
AccountIds == {"acct1", "acct9"}
\* What _get_user_principals returns when it succeeds.
Principals == {"up1"}
\* WSQOSLevel members callers pass.
QosLevels == {"FAST"}

NoWs == [valid |-> FALSE, account |-> "", principal |-> "", qos |-> "",
         websocket |-> 0, next_request_id |-> 0]
\* The dict ws_connect returns.
Handle(account, principal, websocket, qos) ==
  [valid |-> TRUE, account |-> account, principal |-> principal, qos |-> qos,
   websocket |-> websocket, next_request_id |-> 1]

NoConnLoc == [account |-> "", principal |-> "", qos |-> "", websocket |-> 0]
\* service, desc: the arguments; replay: the place in _ws_resubscribe's loop (0
\* in a call by the caller); code: the status code of the confirmation; prev:
\* the entry the handle held for the service when the call was made.
SubLoc(service, desc, replay, code, prev) ==
  [service |-> service, desc |-> desc, replay |-> replay, code |-> code, prev |-> prev]
NoSubLoc == SubLoc("", Descriptor(<<>>, None, FALSE, <<>>, None), 0, None, None)
NoResult == [call |-> "", out |-> ""]
\* The second thread: pc "idle" outside _ws_subscribe, else the wait it is in;
\* service, desc: the arguments of its call.
Other(at, service, desc) == [pc |-> at, service |-> service, desc |-> desc]
NoOther == Other("idle", "", Descriptor(<<>>, None, FALSE, <<>>, None))
EmptyReg == [s \in {} |-> Descriptor(<<>>, None, FALSE, <<>>, None)]

\* A control request: the connection it is sent on, and its service, command
\* and requestid.
Request(c, service, command, requestid) ==
  [conn |-> c, service |-> service, command |-> command, requestid |-> requestid]

IsOpen == conn = "open"

\* How a connection is found closed: recv() raises one of these.
Closures == {"ConnectionClosedError", "ConnectionClosedOK"}

\* No session: nothing is connected, subscribed or running.
NoSession ==
  /\ pc = "idle"
  /\ ctx = "caller"
  /\ ws = NoWs
  /\ reg = EmptyReg
  /\ conn = "none"
  /\ nconn = 0
  /\ flags_done = FALSE
  /\ connLoc = NoConnLoc
  /\ subLoc = NoSubLoc
  /\ sent = {}
  /\ calls = <<>>
  /\ lastFrame = None
  /\ discarded = {}
  /\ result = NoResult
  /\ closeCalled = FALSE

Init ==
  /\ NoSession
  /\ arg = None
  /\ ret = None
  /\ other = NoOther

\* A public call ends: with `out` "returned", "None", or the name of the
\* exception it raises.  An exception raised while ws_listen is on the stack
\* is raised by ws_listen.
Ends(call, out) ==
  /\ pc' = "idle"
  /\ ctx' = "caller"
  /\ result' = [call |-> IF ctx = "listen" THEN "ws_listen" ELSE call, out |-> out]

\* flags['done'] after a step: the flags of a ws_listen that has ended are of
\* no further use, the next ws_listen is given its own.
FlagsAfter == flags_done' = (flags_done /\ pc' # "idle")

\* A step that consumes no frame and calls no callback.
Fresh ==
  /\ calls' = <<>>
  /\ lastFrame' = None
  /\ discarded' = {}

(***************************************************************************)
(* ws_connect                                                              *)
(***************************************************************************)
\* A ws_connect that does not look for the account among the principal's.
ConnectOutcomeAnyAccount(account_id, principal, connected) ==
  IF IsNone(principal) THEN "None"
  ELSE IF ~connected THEN "raise"
  ELSE "wait"

\* ws_connect up to its first wait: fetch the principal, find the account,
\* open the connection and send the login request.  `principal` is what
\* _get_user_principals returns, `connected` whether websockets.connect
\* succeeds.  The outcome is "None" (logged error), "raise", or "wait".
ConnectOutcome(account_id, principal, connected) ==
  IF IsNone(principal) THEN "None"
  ELSE IF account_id \notin PrincipalAccounts THEN "None"
  ELSE IF ~connected THEN "raise"
  ELSE "wait"

\* The connection is opened and the login request sent on it.
OpensConnection(account_id, principal, qos, before) ==
  /\ nconn' = nconn + 1
  /\ sent' = before \cup {Request(nconn + 1, "ADMIN", "LOGIN", 0)}
  /\ connLoc' = [account |-> account_id, principal |-> Val(principal), qos |-> qos,
                 websocket |-> nconn + 1]
  /\ pc' = "connect_wait"

\* The caller calls ws_connect(account_id, qos); it does so until it holds a
\* handle (one session in a run).
ws_connect_call ==
  /\ pc = "idle"
  /\ ~ws.valid
  /\ \E account_id \in AccountIds, qos \in QosLevels,
        principal \in {None} \cup {Some(p) : p \in Principals}, connected \in BOOLEAN :
       LET outcome == ConnectOutcome(account_id, principal, connected)
       IN  /\ connected => nconn < MaxConnects
           /\ CASE outcome = "None" ->
                     /\ Ends("ws_connect", "None")
                     /\ sent' = {}
                     /\ UNCHANGED <<nconn, connLoc>>
                [] outcome = "raise" ->
                     /\ Ends("ws_connect", "OSError")
                     /\ sent' = {}
                     /\ UNCHANGED <<nconn, connLoc>>
                [] OTHER ->
                     /\ OpensConnection(account_id, principal, qos, {})
                     /\ result' = NoResult
                     /\ UNCHANGED ctx
  /\ subLoc' = NoSubLoc
  /\ Fresh
  /\ UNCHANGED <<ws, reg, conn, closeCalled>>
  /\ FlagsAfter
  /\ UNCHANGED <<arg, ret, other>>

(***************************************************************************)
(* _ws_subscribe and _ws_resubscribe                                       *)
(***************************************************************************)
\* _ws_subscribe up to its first wait: build the request and send it on the
\* handle's connection, which is in state `state`.  send() on a closed
\* connection raises.
SendsSubscribe(wsv, state, service, desc, replay, before, regv) ==
  /\ subLoc' = SubLoc(service, desc, replay, None,
                      IF service \in DOMAIN regv THEN Some(regv[service]) ELSE None)
  /\ IF state = "open"
       THEN /\ sent' = before \cup {Request(wsv.websocket, service, "SUBS", 1)}
            /\ pc' = "sub_wait_resp"
            /\ result' = NoResult
            /\ UNCHANGED ctx
       ELSE /\ Ends("subscribe", state)
            /\ sent' = before

\* The services _ws_resubscribe goes through, in its order.
ResubscribeOrder == <<"ACCT_ACTIVITY", "CHART_EQUITY", "OPTION", "QUOTE">>

\* The first place from i on in that order whose service is in the handle, or 0.
NextReplay(i, regv) ==
  LET places == {j \in i..Len(ResubscribeOrder) : ResubscribeOrder[j] \in DOMAIN regv}
  IN  IF places = {} THEN 0 ELSE CHOOSE j \in places : \A k \in places : j <= k

\* A _ws_resubscribe that passes the stored fields, callbacks, contexts and
\* symbols, and leaves process_first_data to _ws_subscribe's default.
ResubscribeByDefault(i, wsv, regv) ==
  LET j == NextReplay(i, regv)
  IN  IF j = 0
        THEN /\ pc' = "listen_top"
             /\ subLoc' = NoSubLoc
             /\ UNCHANGED <<ctx, result, sent>>
        ELSE SendsSubscribe(wsv, "open", ResubscribeOrder[j],
                            [regv[ResubscribeOrder[j]] EXCEPT !.process_first_data = FALSE], j,
                            sent, regv)

\* _ws_resubscribe(ws) from place i of its loop on: subscribe the next stored
\* service with its stored parameters, or return to the receive loop.
Resubscribe(i, wsv, regv) ==
  LET j == NextReplay(i, regv)
  IN  IF j = 0
        THEN /\ pc' = "listen_top"
             /\ subLoc' = NoSubLoc
             /\ UNCHANGED <<ctx, result, sent>>
        ELSE SendsSubscribe(wsv, "open", ResubscribeOrder[j], regv[ResubscribeOrder[j]], j,
                            sent, regv)

\* What _subscribe's loops throw away with a frame: the services of the
\* entries of a data list, from entry k on, that have a descriptor in the
\* handle and decode to records.
DroppedFrom(k, data, regv) ==
  {WSServiceOf(Val(data[i].service)).member :
     i \in {i \in k..Len(data) :
              /\ ~IsNone(data[i].service)
              /\ WSServiceOf(Val(data[i].service)).exc = ""
              /\ WSServiceOf(Val(data[i].service)).member \in DOMAIN regv
              /\ ws_distill_data(data[i]).exc = ""
              /\ ~ws_distill_data(data[i]).none}}
DroppedOf(frame, regv) ==
  IF IsNone(frame.data) THEN {} ELSE DroppedFrom(1, Val(frame.data), regv)

\* The caller calls one of ws_subscribe_to_*(ws, [symbols,] cb_functions, cb_data).
subscribe_call ==
  /\ pc = "idle"
  /\ ws.valid
  /\ \E service \in Domains : \E args \in ArgsOf(service) :
       /\ service \in DOMAIN reg \/ Cardinality(DOMAIN reg) < MaxServices
       /\ SendsSubscribe(ws, conn, service,
                         Descriptor(FieldsOf(service), args[1], ProcessFirstDataOf(service),
                                    args[2], args[3]),
                         0, {}, reg)
  /\ Fresh
  /\ UNCHANGED <<ws, reg, conn, nconn, connLoc, closeCalled>>
  /\ FlagsAfter
  /\ UNCHANGED <<arg, ret, other>>

\* _subscribe's first loop: `while 'response' not in response: recv()`.  Every
\* frame without a response is dropped; the status code of the response is
\* logged and the second loop begins.
subscribe_recv_response ==
  /\ pc = "sub_wait_resp"
  /\ IsOpen
  /\ \E frame \in Frames :
       /\ discarded' = DroppedOf(frame, reg)
       /\ IF IsNone(frame.response)
            THEN UNCHANGED <<pc, subLoc>>
            ELSE /\ pc' = "sub_wait_data"
                 /\ subLoc' = [subLoc EXCEPT !.code = frame.response]
  /\ calls' = <<>>
  /\ lastFrame' = None
  /\ UNCHANGED <<ctx, ws, reg, conn, nconn, flags_done, sent, connLoc, result, closeCalled>>
  /\ UNCHANGED <<arg, ret, other>>

\* A store that keeps what the service's earlier entry held: its callbacks and
\* contexts ahead of the new ones.
StoresMerged(regv, service, desc) ==
  [s \in DOMAIN regv \cup {service} |->
     IF s # service THEN regv[s]
     ELSE IF service \notin DOMAIN regv THEN desc
     ELSE [desc EXCEPT !.cb_functions = regv[s].cb_functions \o desc.cb_functions]]

\* A store that starts the service keys of the handle afresh: the new
\* descriptor is the only one left.
StoresAlone(regv, service, desc) ==
  [s \in {service} |-> desc]

\* ws[service.value] = {...}: the handle after the descriptor is stored under
\* the service's value, in place of what was there.
Stores(regv, service, desc) ==
  [s \in DOMAIN regv \cup {service} |-> IF s = service THEN desc ELSE regv[s]]

\* A _ws_subscribe that calls the callbacks on the first data whatever the
\* flag says.
SubscribeFinishUnflagged(data, regv, service, desc, raisers) ==
  LET data_service == IF IsNone(data.service) THEN Found("") ELSE WSServiceOf(Val(data.service))
      dist == ws_distill_data(data)
      reg1 == Stores(regv, service, desc)
  IN  IF data_service.exc # ""
        THEN [exc |-> data_service.exc, reg |-> regv, calls |-> <<>>]
      ELSE IF dist.exc # ""
        THEN [exc |-> dist.exc, reg |-> regv, calls |-> <<>>]
      ELSE IF dist.none
        THEN [exc |-> "", reg |-> reg1, calls |-> <<>>]
      ELSE IF data_service.member \notin DOMAIN reg1
        THEN [exc |-> "KeyError", reg |-> reg1, calls |-> <<>>]
      ELSE LET inv == InvokeFrom(1, reg1[data_service.member], dist, 1, raisers)
           IN  [exc |-> inv.exc, reg |-> reg1, calls |-> inv.calls]

\* A _ws_subscribe that calls, on the first data, the callbacks of the call
\* itself, whatever the service of the data.
SubscribeFinishToOwn(data, regv, service, desc, raisers) ==
  LET data_service == IF IsNone(data.service) THEN Found("") ELSE WSServiceOf(Val(data.service))
      dist == ws_distill_data(data)
      reg1 == Stores(regv, service, desc)
  IN  IF data_service.exc # ""
        THEN [exc |-> data_service.exc, reg |-> regv, calls |-> <<>>]
      ELSE IF dist.exc # ""
        THEN [exc |-> dist.exc, reg |-> regv, calls |-> <<>>]
      ELSE IF ~(desc.process_first_data /\ ~dist.none)
        THEN [exc |-> "", reg |-> reg1, calls |-> <<>>]
      ELSE LET inv == InvokeFrom(1, reg1[service], dist, 1, raisers)
           IN  [exc |-> inv.exc, reg |-> reg1, calls |-> inv.calls]

\* What _ws_subscribe does with the first entry of the first data frame:
\* data_service, distilled_data, the store, and the process_first_data calls.
SubscribeFinish(data, regv, service, desc, raisers) ==
  LET data_service == IF IsNone(data.service) THEN Found("") ELSE WSServiceOf(Val(data.service))
      dist == ws_distill_data(data)
      reg1 == Stores(regv, service, desc)
  IN  IF data_service.exc # ""
        THEN [exc |-> data_service.exc, reg |-> regv, calls |-> <<>>]
      ELSE IF dist.exc # ""
        THEN [exc |-> dist.exc, reg |-> regv, calls |-> <<>>]
      ELSE IF ~(desc.process_first_data /\ ~dist.none)
        THEN [exc |-> "", reg |-> reg1, calls |-> <<>>]
      ELSE IF data_service.member \notin DOMAIN reg1
        THEN [exc |-> "KeyError", reg |-> reg1, calls |-> <<>>]
      ELSE LET inv == InvokeFrom(1, reg1[data_service.member], dist, 1, raisers)
           IN  [exc |-> inv.exc, reg |-> reg1, calls |-> inv.calls]

\* _subscribe's second loop: `while 'data' not in response: recv()`, and, once
\* a frame carries data, the rest of _ws_subscribe on its first entry.
subscribe_recv_data ==
  /\ pc = "sub_wait_data"
  /\ IsOpen
  /\ \E frame \in Frames, raisers \in SUBSET {"f", "g"} :
       /\ lastFrame' = None
       /\ IF IsNone(frame.data)
            THEN /\ raisers = {}
                 /\ calls' = <<>>
                 /\ discarded' = {}
                 /\ UNCHANGED <<pc, ctx, reg, sent, subLoc, result>>
            ELSE LET fin == SubscribeFinish(Val(frame.data)[1], reg, subLoc.service,
                                            subLoc.desc, raisers)
                 IN  /\ raisers # {} => \E i \in 1..Len(fin.calls) : fin.calls[i].cb \in raisers
                     /\ reg' = fin.reg
                     /\ calls' = fin.calls
                     /\ discarded' = DroppedFrom(IF fin.calls = <<>> THEN 1 ELSE 2,
                                                 Val(frame.data), reg)
                     /\ IF fin.exc # ""
                          THEN /\ Ends("subscribe", fin.exc)
                               /\ UNCHANGED <<sent, subLoc>>
                        ELSE IF ctx = "listen"
                          THEN Resubscribe(subLoc.replay + 1, ws, fin.reg)
                        ELSE /\ Ends("subscribe", "returned")
                             /\ UNCHANGED <<sent, subLoc>>
  /\ UNCHANGED <<ws, conn, nconn, connLoc, closeCalled>>
  /\ FlagsAfter
  /\ UNCHANGED <<arg, ret, other>>

\* recv() in either loop of _subscribe raises: the connection is closed.
subscribe_recv_closed ==
  /\ pc \in {"sub_wait_resp", "sub_wait_data"}
  /\ IsOpen
  /\ \E how \in Closures :
       /\ conn' = how
       /\ Ends("subscribe", how)
  /\ Fresh
  /\ UNCHANGED <<ws, reg, nconn, sent, connLoc, subLoc, closeCalled>>
  /\ FlagsAfter
  /\ UNCHANGED <<arg, ret, other>>

(***************************************************************************)
(* ws_connect, after the login request is sent                             *)
(***************************************************************************)
\* What ws_connect returns once a response has arrived: _connect logs a
\* non-zero status code and returns the connection all the same.
ConnectReturns(code, loc) == Handle(loc.account, loc.principal, loc.websocket, loc.qos)

\* _connect's loop: `while 'response' not in response: recv()`, and the return
\* of the handle: to the caller, or to ws_listen, which updates its handle
\* and resubscribes.
ws_connect_recv ==
  /\ pc = "connect_wait"
  /\ \E frame \in Frames :
       IF IsNone(frame.response)
         THEN /\ lastFrame' = None
              /\ UNCHANGED <<pc, ctx, ws, conn, sent, connLoc, subLoc, result>>
         ELSE LET handle == ConnectReturns(Val(frame.response), connLoc)
              IN  /\ lastFrame' = Some(frame)
                  /\ conn' = "open"
                  /\ ws' = handle
                  /\ connLoc' = NoConnLoc
                  /\ IF ctx = "listen"
                       THEN Resubscribe(1, handle, reg)
                       ELSE /\ Ends("ws_connect", "returned")
                            /\ UNCHANGED <<sent, subLoc>>
  /\ calls' = <<>>
  /\ discarded' = {}
  /\ UNCHANGED <<reg, nconn, closeCalled>>
  /\ FlagsAfter
  /\ UNCHANGED <<arg, ret, other>>

\* recv() in _connect raises: the new connection is closed.
ws_connect_recv_closed ==
  /\ pc = "connect_wait"
  /\ \E how \in Closures : Ends("ws_connect", how)
  /\ connLoc' = NoConnLoc
  /\ Fresh
  /\ UNCHANGED <<ws, reg, conn, nconn, sent, subLoc, closeCalled>>
  /\ FlagsAfter
  /\ UNCHANGED <<arg, ret, other>>

(***************************************************************************)
(* ws_disconnect                                                           *)
(***************************************************************************)
\* The caller calls ws_disconnect(ws): the logout request is sent.
ws_disconnect_call ==
  /\ pc = "idle"
  /\ ws.valid
  /\ closeCalled' = TRUE
  /\ IF IsOpen
       THEN /\ sent' = {Request(ws.websocket, "ADMIN", "LOGOUT", ws.next_request_id)}
            /\ pc' = "logout_wait"
            /\ result' = NoResult
            /\ UNCHANGED ctx
       ELSE /\ Ends("ws_disconnect", conn)
            /\ sent' = {}
  /\ subLoc' = NoSubLoc
  /\ Fresh
  /\ UNCHANGED <<ws, reg, conn, nconn, connLoc>>
  /\ FlagsAfter
  /\ UNCHANGED <<arg, ret, other>>

\* What _disconnect does with the status code of the response: a non-zero
\* code is logged and the function returns; on zero the connection is closed.
LogoutCloses(code) == code = 0

\* How recv() raises on a connection the client has closed: ConnectionClosedOK
\* when the closing handshake completed, ConnectionClosedError when it timed
\* out.
AfterClose == Closures

\* _disconnect's loop: `while 'response' not in response: recv()`, and what
\* follows it.
ws_disconnect_recv ==
  /\ pc = "logout_wait"
  /\ IsOpen
  /\ \E frame \in Frames, closed \in AfterClose :
       IF IsNone(frame.response)
         THEN /\ lastFrame' = None
              /\ UNCHANGED <<pc, ctx, result, conn>>
         ELSE /\ lastFrame' = Some(frame)
              /\ Ends("ws_disconnect", "returned")
              /\ conn' = IF LogoutCloses(Val(frame.response)) THEN closed ELSE conn
  /\ calls' = <<>>
  /\ discarded' = {}
  /\ UNCHANGED <<ws, reg, nconn, sent, connLoc, subLoc, closeCalled>>
  /\ FlagsAfter
  /\ UNCHANGED <<arg, ret, other>>

\* recv() in _disconnect raises: the connection is closed.
ws_disconnect_recv_closed ==
  /\ pc = "logout_wait"
  /\ IsOpen
  /\ \E how \in Closures :
       /\ conn' = how
       /\ Ends("ws_disconnect", how)
  /\ Fresh
  /\ UNCHANGED <<ws, reg, nconn, sent, connLoc, subLoc, closeCalled>>
  /\ FlagsAfter
  /\ UNCHANGED <<arg, ret, other>>

(***************************************************************************)
(* ws_listen                                                               *)
(***************************************************************************)
\* The caller calls ws_listen(ws, flags).
ws_listen_call ==
  /\ pc = "idle"
  /\ ws.valid
  /\ \E done \in BOOLEAN : flags_done' = done
  /\ pc' = "listen_top"
  /\ ctx' = "listen"
  /\ result' = NoResult
  /\ sent' = {}
  /\ subLoc' = NoSubLoc
  /\ Fresh
  /\ UNCHANGED <<ws, reg, conn, nconn, connLoc, closeCalled>>
  /\ UNCHANGED <<arg, ret, other>>

\* `while not('done' in flags and flags['done'])`: return, or wait in recv().
ws_listen_check ==
  /\ pc = "listen_top"
  /\ IF flags_done
       THEN /\ Ends("ws_listen", "returned")
            /\ UNCHANGED sent
       ELSE /\ pc' = "listen_recv"
            /\ sent' = {}
            /\ UNCHANGED <<ctx, result>>
  /\ Fresh
  /\ UNCHANGED <<ws, reg, conn, nconn, connLoc, subLoc, closeCalled>>
  /\ FlagsAfter
  /\ UNCHANGED <<arg, ret, other>>

\* The body of a `for data in response['data']` that leaves the loop at the
\* first entry that decodes to nothing.
RECURSIVE DispatchUntilNone(_, _, _, _)
DispatchUntilNone(k, data, regv, raisers) ==
  IF k > Len(data) THEN [calls |-> <<>>, exc |-> ""]
  ELSE LET rest == DispatchUntilNone(k + 1, data, regv, raisers)
       IN  IF IsNone(data[k].service) THEN rest
           ELSE LET service == WSServiceOf(Val(data[k].service))
                IN  IF service.exc # "" THEN [calls |-> <<>>, exc |-> service.exc]
                    ELSE IF service.member \notin DOMAIN regv THEN rest
                    ELSE LET dist == ws_distill_data(data[k])
                         IN  IF dist.exc # "" THEN [calls |-> <<>>, exc |-> dist.exc]
                             ELSE IF dist.none THEN [calls |-> <<>>, exc |-> ""]
                             ELSE LET inv == InvokeFrom(1, regv[service.member], dist, k, raisers)
                                  IN  IF inv.exc # "" THEN inv
                                      ELSE [calls |-> inv.calls \o rest.calls, exc |-> rest.exc]

\* A pass whose loop over the entries ends at the first that decodes to nothing.
ListenFrameUntilNone(frame, regv, raisers) ==
  IF frame.notify \/ ~IsNone(frame.response) \/ IsNone(frame.data)
    THEN [calls |-> <<>>, exc |-> ""]
    ELSE DispatchUntilNone(1, Val(frame.data), regv, raisers)

\* A pass that goes through the entries of a data frame from the last to the
\* first.
ListenFrameBackwards(frame, regv, raisers) ==
  IF frame.notify \/ ~IsNone(frame.response) \/ IsNone(frame.data)
    THEN [calls |-> <<>>, exc |-> ""]
    ELSE LET data == Val(frame.data)
             pass == DispatchFrom(1, [i \in 1..Len(data) |-> data[Len(data) + 1 - i]],
                                  regv, raisers)
         IN  [calls |-> [j \in 1..Len(pass.calls) |->
                           [pass.calls[j] EXCEPT !.entry = Len(data) + 1 - @]],
              exc |-> pass.exc]

\* A pass that looks for data before it looks for notify and response.
ListenFrameDataFirst(frame, regv, raisers) ==
  IF ~IsNone(frame.data) THEN DispatchFrom(1, Val(frame.data), regv, raisers)
  ELSE [calls |-> <<>>, exc |-> ""]

\* What one pass of the loop body does with a frame: heartbeats, responses
\* and frames without data are skipped, the entries of a data frame are
\* dispatched.
ListenFrame(frame, regv, raisers) ==
  IF frame.notify THEN [calls |-> <<>>, exc |-> ""]
  ELSE IF ~IsNone(frame.response) THEN [calls |-> <<>>, exc |-> ""]
  ELSE IF IsNone(frame.data) THEN [calls |-> <<>>, exc |-> ""]
  ELSE DispatchFrom(1, Val(frame.data), regv, raisers)

\* recv() returns a frame: one pass of the loop body.
ws_listen_recv ==
  /\ pc = "listen_recv"
  /\ IsOpen
  /\ \E frame \in Frames, raisers \in SUBSET {"f", "g"} :
       LET pass == ListenFrame(frame, reg, raisers)
       IN  /\ raisers # {} => \E i \in 1..Len(pass.calls) : pass.calls[i].cb \in raisers
           /\ lastFrame' = Some(frame)
           /\ calls' = pass.calls
           /\ IF pass.exc # ""
                THEN Ends("ws_listen", pass.exc)
                ELSE /\ pc' = "listen_top"
                     /\ UNCHANGED <<ctx, result>>
  /\ discarded' = {}
  /\ UNCHANGED <<ws, reg, conn, nconn, sent, connLoc, subLoc, closeCalled>>
  /\ FlagsAfter
  /\ UNCHANGED <<arg, ret, other>>

\* recv() raises.  _listen catches ConnectionClosedError only and returns
\* None, which starts the reconnect loop; any other exception leaves ws_listen.
ws_listen_recv_closed ==
  /\ pc = "listen_recv"
  /\ \E how \in IF IsOpen THEN Closures ELSE {conn} :
       /\ conn' = how
       /\ IF how = "ConnectionClosedError"
            THEN /\ pc' = "reconnect"
                 /\ UNCHANGED <<ctx, result>>
            ELSE Ends("ws_listen", how)
  /\ Fresh
  /\ UNCHANGED <<ws, reg, nconn, sent, connLoc, subLoc, closeCalled>>
  /\ FlagsAfter
  /\ UNCHANGED <<arg, ret, other>>

\* `while not(ws_prime or done): ws_prime = ws_connect(account, qos)`, one
\* pass: leave the loop when done is set, else call ws_connect.
ws_listen_reconnect ==
  /\ pc = "reconnect"
  /\ IF flags_done
       THEN /\ pc' = "listen_top"
            /\ UNCHANGED <<ctx, result, nconn, sent, connLoc>>
       ELSE \E principal \in {None} \cup {Some(p) : p \in Principals}, connected \in BOOLEAN :
              LET outcome == ConnectOutcome(ws.account, principal, connected)
              IN  /\ connected => nconn < MaxConnects
                  /\ CASE outcome = "None" ->
                            UNCHANGED <<pc, ctx, result, nconn, sent, connLoc>>
                       [] outcome = "raise" ->
                            /\ Ends("ws_connect", "OSError")
                            /\ UNCHANGED <<nconn, sent, connLoc>>
                       [] OTHER ->
                            /\ OpensConnection(ws.account, principal, ws.qos, sent)
                            /\ UNCHANGED <<ctx, result>>
  /\ Fresh
  /\ UNCHANGED <<ws, reg, conn, subLoc, closeCalled>>
  /\ FlagsAfter
  /\ UNCHANGED <<arg, ret, other>>

(***************************************************************************)
(* The environment                                                         *)
(***************************************************************************)
\* Someone sets flags['done'] while ws_listen runs.
set_done ==
  /\ ctx = "listen"
  /\ ~flags_done
  /\ flags_done' = TRUE
  /\ UNCHANGED <<pc, ctx, ws, reg, conn, nconn, connLoc, subLoc, sent, calls, lastFrame,
                 discarded, result, closeCalled>>
  /\ UNCHANGED <<arg, ret, other>>

Next ==
  \/ ws_connect_call
  \/ ws_connect_recv
  \/ ws_connect_recv_closed
  \/ subscribe_call
  \/ subscribe_recv_response
  \/ subscribe_recv_data
  \/ subscribe_recv_closed
  \/ ws_disconnect_call
  \/ ws_disconnect_recv
  \/ ws_disconnect_recv_closed
  \/ ws_listen_call
  \/ ws_listen_check
  \/ ws_listen_recv
  \/ ws_listen_recv_closed
  \/ ws_listen_reconnect
  \/ set_done

Spec == Init /\ [][Next]_vars

\* The steps ws_listen takes without waiting for the server are taken: the
\* test of its `while` and a pass of the reconnect loop.  Nothing makes a
\* recv() return: that is up to the server and the network.
FairSpec == Spec /\ WF_vars(ws_listen_check) /\ WF_vars(ws_listen_reconnect)

(***************************************************************************)
(* _ws_subscribe called from a second thread while the first is in its own *)
(* call.  Nothing in _ws_subscribe keeps the two apart: each sends its     *)
(* request when it is called and reads the connection until it has a       *)
(* response and a data frame.                                              *)
(***************************************************************************)
Waits == {"sub_wait_resp", "sub_wait_data"}

\* The services the second thread subscribes to.
OtherDomains == {"CHART_EQUITY"}

\* The second thread calls one of ws_subscribe_to_*: the request is sent
\* (send() raises on a connection found closed, and the call ends).
other_subscribe_call ==
  /\ other = NoOther
  /\ ws.valid
  /\ pc \in {"idle"} \cup Waits
  /\ ctx = "caller"
  /\ \E service \in OtherDomains : \E args \in ArgsOf(service) :
       LET desc == Descriptor(FieldsOf(service), args[1], ProcessFirstDataOf(service),
                              args[2], args[3])
       IN  /\ service \in DOMAIN reg \/ Cardinality(DOMAIN reg) < MaxServices
           /\ IF IsOpen
                THEN /\ sent' = sent \cup {Request(ws.websocket, service, "SUBS", 1)}
                     /\ other' = Other("sub_wait_resp", service, desc)
                ELSE UNCHANGED <<sent, other>>
  /\ UNCHANGED <<pc, ctx, ws, reg, conn, nconn, flags_done, connLoc, subLoc, calls,
                 lastFrame, discarded, result, closeCalled, arg, ret>>

\* The second thread's `while 'response' not in response: recv()`.
other_recv_response ==
  /\ other.pc = "sub_wait_resp"
  /\ IsOpen
  /\ \E frame \in Frames :
       IF IsNone(frame.response)
         THEN UNCHANGED other
         ELSE other' = [other EXCEPT !.pc = "sub_wait_data"]
  /\ UNCHANGED <<pc, ctx, ws, reg, conn, nconn, flags_done, connLoc, subLoc, sent, calls,
                 lastFrame, discarded, result, closeCalled, arg, ret>>

\* The second thread's `while 'data' not in response: recv()` and the rest of
\* its _ws_subscribe.
other_recv_data ==
  /\ other.pc = "sub_wait_data"
  /\ IsOpen
  /\ \E frame \in Frames :
       IF IsNone(frame.data)
         THEN UNCHANGED <<other, reg>>
         ELSE LET fin == SubscribeFinish(Val(frame.data)[1], reg, other.service,
                                         other.desc, {})
              IN  /\ reg' = fin.reg
                  /\ other' = NoOther
  /\ UNCHANGED <<pc, ctx, ws, conn, nconn, flags_done, connLoc, subLoc, sent, calls,
                 lastFrame, discarded, result, closeCalled, arg, ret>>

\* recv() raises in the second thread: the connection is closed, or the
\* connection object refuses a recv() made while another is waiting.
other_recv_raises ==
  /\ other.pc \in Waits
  /\ IsOpen
  /\ \E how \in Closures \cup {"RuntimeError"} :
       /\ how = "RuntimeError" => pc \in Waits
       /\ conn' = IF how \in Closures THEN how ELSE conn
       /\ other' = NoOther
  /\ UNCHANGED <<pc, ctx, ws, reg, nconn, flags_done, connLoc, subLoc, sent, calls,
                 lastFrame, discarded, result, closeCalled, arg, ret>>

\* recv() raises in the first thread because the second is waiting in recv().
subscribe_recv_refused ==
  /\ pc \in Waits
  /\ ctx = "caller"
  /\ other.pc \in Waits
  /\ IsOpen
  /\ Ends("subscribe", "RuntimeError")
  /\ Fresh
  /\ UNCHANGED <<ws, reg, conn, nconn, flags_done, sent, connLoc, subLoc, closeCalled,
                 arg, ret, other>>

CallersNext ==
  \/ ws_connect_call
  \/ ws_connect_recv
  \/ ws_connect_recv_closed
  \/ subscribe_call
  \/ subscribe_recv_response
  \/ subscribe_recv_data
  \/ subscribe_recv_closed
  \/ subscribe_recv_refused
  \/ other_subscribe_call
  \/ other_recv_response
  \/ other_recv_data
  \/ other_recv_raises

CallersSpec == Init /\ [][CallersNext]_vars

(***************************************************************************)
(* Field taxonomies and the decoding of one record.                       *)
(***************************************************************************)
\* The members of the field enumerations of the tda package, in definition
\* order: <<member, api_key, typecast>>.
ChartBarField ==
  <<<<"SYMBOL", "symbol", "str">>, <<"TIMESTAMP", "datetime", "int">>,
    <<"OPEN_PRICE", "open", "float">>, <<"HIGH_PRICE", "high", "float">>,
    <<"LOW_PRICE", "low", "float">>, <<"CLOSE_PRICE", "close", "float">>,
    <<"VOLUME", "volume", "int">>, <<"UNSUPPORTED", "", "str">>>>

OptionContractField ==
  <<<<"SYMBOL", "symbol", "str">>, <<"DESCRIPTION", "description", "str">>,
    <<"OPEX", "expirationDate", "int">>, <<"SETTLEMENT_TYPE", "settlementType", "str">>,
    <<"STRIKE", "strikePrice", "float">>, <<"CONTRACT_TYPE", "putCall", "str">>,
    <<"BID_PRICE", "bid", "float">>, <<"ASK_PRICE", "ask", "float">>,
    <<"LAST_PRICE", "last", "float">>, <<"MARK_PRICE", "mark", "float">>,
    <<"VOLUME", "volume", "int">>, <<"VOLATILITY", "volatility", "float">>,
    <<"OPEN_INTEREST", "openInterest", "int">>, <<"BID_SIZE", "bidSize", "int">>,
    <<"ASK_SIZE", "askSize", "int">>, <<"LAST_SIZE", "lastSize", "int">>,
    <<"DELTA", "delta", "float">>, <<"GAMMA", "gamma", "float">>,
    <<"THETA", "theta", "float">>, <<"UNSUPPORTED", "", "str">>>>

QuoteField ==
  <<<<"SYMBOL", "symbol", "str">>, <<"DESCRIPTION", "description", "str">>,
    <<"BID_PRICE", "bidPrice", "float">>, <<"ASK_PRICE", "askPrice", "float">>,
    <<"LAST_PRICE", "lastPrice", "float">>, <<"MARK_PRICE", "mark", "float">>,
    <<"BID_SIZE", "bidSize", "int">>, <<"ASK_SIZE", "askSize", "int">>,
    <<"LAST_SIZE", "lastSize", "int">>, <<"VOLATILITY", "volatility", "float">>,
    <<"QUOTE_TIMESTAMP", "quoteTimestamp", "int">>,
    <<"LAST_TIMESTAMP", "lastTimestamp", "int">>, <<"UNSUPPORTED", "", "str">>>>

FieldClasses == {"ChartBarField", "OptionContractField", "QuoteField"}

MembersOf(cls) ==
  CASE cls = "ChartBarField"       -> ChartBarField
    [] cls = "OptionContractField" -> OptionContractField
    [] cls = "QuoteField"          -> QuoteField

\* A member of an enumeration, as a key of a decoded record.
Member(cls, name) == <<cls, name>>

\* member.typecast
TypecastOf(cls, name) ==
  LET ms == MembersOf(cls)
  IN  ms[CHOOSE i \in 1..Len(ms) : ms[i][1] = name][3]

\* JSON values: numbers and strings, by their text.
Num(text) == [json |-> "number", text |-> text]
Str(text) == [json |-> "string", text |-> text]

\* The texts that are written as an integer, and as a number.
IntTexts == {"10", "17"}
NumTexts == IntTexts \cup {"10.5"}

\* int(x) of a float drops the fraction; float(x) of an integer has one.
Truncated(text) == IF text = "10.5" THEN "10" ELSE text
AsFloat(text) == IF text = "10" THEN "10.0" ELSE IF text = "17" THEN "17.0" ELSE text

\* typecast(raw) for the typecasts str, int and float: the value, with its
\* type, or the exception.
Typecast(kind, raw) ==
  CASE kind = "str" -> [exc |-> "", val |-> <<"str", raw.text>>]
    [] kind = "int" ->
         IF raw.json = "number" THEN [exc |-> "", val |-> <<"int", Truncated(raw.text)>>]
         ELSE IF raw.text \in IntTexts THEN [exc |-> "", val |-> <<"int", raw.text>>]
         ELSE [exc |-> "ValueError", val |-> <<>>]
    [] kind = "float" ->
         IF raw.text \in NumTexts THEN [exc |-> "", val |-> <<"float", AsFloat(raw.text)>>]
         ELSE [exc |-> "ValueError", val |-> <<>>]

\* The field_map of _ws_distill_data for a service, in its order: the value
\* of the WS field (the key of the payload, as a string) and the member of
\* the tda enumeration its value is stored under.
FieldClassOf(service) ==
  CASE service = "CHART_EQUITY" -> "ChartBarField"
    [] service = "OPTION"       -> "OptionContractField"
    [] service = "QUOTE"        -> "QuoteField"

field_map(service) ==
  CASE service = "CHART_EQUITY" ->
         <<<<"7", "TIMESTAMP">>, <<"1", "OPEN_PRICE">>, <<"2", "HIGH_PRICE">>,
           <<"3", "LOW_PRICE">>, <<"4", "CLOSE_PRICE">>, <<"5", "VOLUME">>>>
    [] service = "OPTION" ->
         <<<<"2", "BID_PRICE">>, <<"3", "ASK_PRICE">>, <<"4", "LAST_PRICE">>,
           <<"41", "MARK_PRICE">>, <<"8", "VOLUME">>, <<"10", "VOLATILITY">>,
           <<"9", "OPEN_INTEREST">>, <<"20", "BID_SIZE">>, <<"21", "ASK_SIZE">>,
           <<"22", "LAST_SIZE">>, <<"32", "DELTA">>>>
    [] service = "QUOTE" ->
         <<<<"1", "BID_PRICE">>, <<"2", "ASK_PRICE">>, <<"3", "LAST_PRICE">>,
           <<"49", "MARK_PRICE">>, <<"4", "BID_SIZE">>, <<"5", "ASK_SIZE">>,
           <<"9", "LAST_SIZE">>, <<"24", "VOLATILITY">>, <<"50", "QUOTE_TIMESTAMP">>,
           <<"51", "LAST_TIMESTAMP">>>>

\* A decoded record, or the exception raised while it was built.
Decoded(rec) == [exc |-> "", rec |-> rec]
DecodeRaised(e) == [exc |-> e, rec |-> <<>>]
EmptyRecord == [k \in {} |-> <<>>]

\* {field: field.typecast(bar[str(ws_field.value)])
\*    for ws_field, field in field_map.items() if str(ws_field.value) in bar}
\* from place i of field_map on, added to the record `acc`.
RECURSIVE Comprehension(_, _, _, _)
Comprehension(i, service, bar, acc) ==
  IF i > Len(field_map(service)) THEN Decoded(acc)
  ELSE LET key == field_map(service)[i][1]
           name == field_map(service)[i][2]
           cls == FieldClassOf(service)
       IN  IF key \notin DOMAIN bar THEN Comprehension(i + 1, service, bar, acc)
           ELSE LET cast == Typecast(TypecastOf(cls, name), bar[key])
                IN  IF cast.exc # "" THEN DecodeRaised(cast.exc)
                    ELSE Comprehension(i + 1, service, bar,
                                       (Member(cls, name) :> cast.val) @@ acc)

\* A comprehension that stores a zero under the field of a key the payload
\* does not hold.
RECURSIVE ComprehensionDefaulting(_, _, _, _)
ComprehensionDefaulting(i, service, bar, acc) ==
  IF i > Len(field_map(service)) THEN Decoded(acc)
  ELSE LET key == field_map(service)[i][1]
           name == field_map(service)[i][2]
           cls == FieldClassOf(service)
           cast == IF key \in DOMAIN bar
                     THEN Typecast(TypecastOf(cls, name), bar[key])
                     ELSE [exc |-> "", val |-> <<TypecastOf(cls, name), "0">>]
       IN  IF cast.exc # "" THEN DecodeRaised(cast.exc)
           ELSE ComprehensionDefaulting(i + 1, service, bar,
                                        (Member(cls, name) :> cast.val) @@ acc)

\* The value json.loads gives for a JSON value: a str, an int or a float.
Loaded(raw) ==
  IF raw.json = "string" THEN <<"str", raw.text>>
  ELSE IF raw.text \in IntTexts THEN <<"int", raw.text>>
  ELSE <<"float", raw.text>>

\* A decoder that gives every mapped field a value.
DistillRecordDefaulting(service, bar) ==
  IF service = "TIMESALE_EQUITY" THEN DecodeRaised("KeyError")
  ELSE LET prime == ComprehensionDefaulting(1, service, bar, EmptyRecord)
       IN  IF prime.exc # "" THEN prime
           ELSE Decoded((Member(FieldClassOf(service), "SYMBOL") :> Loaded(bar["key"]))
                        @@ prime.rec)

\* The record _ws_distill_data builds from one element of the content of a
\* CHART_EQUITY, OPTION, QUOTE or TIMESALE_EQUITY entry.
DistillRecord(service, bar) ==
  IF service = "TIMESALE_EQUITY"
    THEN IF ~({"key", "1", "2", "3", "4"} \subseteq DOMAIN bar) THEN DecodeRaised("KeyError")
         ELSE LET size == Typecast("int", bar["3"])
              IN  IF size.exc # "" THEN DecodeRaised(size.exc)
                  ELSE Decoded((Member("WSTimesaleEquityField", "SYMBOL") :> Loaded(bar["key"]))
                               @@ (Member("WSTimesaleEquityField", "TRADE_TIME") :> Loaded(bar["1"]))
                               @@ (Member("WSTimesaleEquityField", "LAST_PRICE") :> Loaded(bar["2"]))
                               @@ (Member("WSTimesaleEquityField", "LAST_SIZE") :> size.val)
                               @@ (Member("WSTimesaleEquityField", "LAST_SEQUENCE") :> Loaded(bar["4"])))
  ELSE LET prime == Comprehension(1, service, bar, EmptyRecord)
       IN  IF prime.exc # "" THEN prime
           ELSE IF "key" \notin DOMAIN bar THEN DecodeRaised("KeyError")
           ELSE Decoded((Member(FieldClassOf(service), "SYMBOL") :> Loaded(bar["key"]))
                        @@ prime.rec)

\* The keys a payload may hold besides 'key': fields the decoder maps, fields
\* of the WS enumeration it does not map, and a key no enumeration knows.
OptionalKeys(service) ==
  CASE service = "CHART_EQUITY"    -> {"1", "2", "5", "7", "6", "99"}
    [] service = "OPTION"          -> {"2", "20", "1", "99"}
    [] service = "QUOTE"           -> {"1", "4", "50", "25", "99"}
    [] service = "TIMESALE_EQUITY" -> {"1", "2", "3", "4"}

\* The value the server sends under a key: the symbol, a price, a count or a
\* time, a text.
RawOf(service, key) ==
  IF key = "key" THEN Str("XYZ")
  ELSE IF service = "TIMESALE_EQUITY" THEN Num(IF key = "2" THEN "10.5" ELSE "17")
  ELSE LET places == {i \in 1..Len(field_map(service)) : field_map(service)[i][1] = key}
       IN  IF places = {} THEN Str("N/A")
           ELSE IF TypecastOf(FieldClassOf(service),
                              field_map(service)[CHOOSE i \in places : TRUE][2]) = "float"
             THEN Num("10.5")
           ELSE Num("17")

\* The payloads of a service: 'key' and any of the optional keys.
Bars(service) ==
  {[k \in ks \cup {"key"} |-> RawOf(service, k)] : ks \in SUBSET OptionalKeys(service)}

RecordServices == {"CHART_EQUITY", "OPTION", "QUOTE", "TIMESALE_EQUITY"}

\* The calls of the record decoder made on their own.
DistillArgs ==
  UNION {{[fn |-> "_ws_distill_data", service |-> s, bar |-> b] : b \in Bars(s)} :
           s \in RecordServices}

(***************************************************************************)
(* Lookup of a field by its name.                                          *)
(***************************************************************************)
\* The names looked up: wire names as the REST API spells them, in other
\* cases, with spaces around, and names of no field.
FieldNames ==
  {"open", "OPEN", " Open ", "datetime", "DateTime", "bid", " BID", "openInterest",
   "OPENINTEREST", "openinterest ", "bidPrice", "BIDPRICE", " bidprice", "symbol",
   "Symbol ", "foo", "bid price", "", "  "}

\* str.strip() and str.lower() on the texts that occur.
Strip(text) ==
  CASE text = " Open "         -> "Open"
    [] text = " BID"           -> "BID"
    [] text = "openinterest "  -> "openinterest"
    [] text = " bidprice"      -> "bidprice"
    [] text = "Symbol "        -> "Symbol"
    [] text = "  "             -> ""
    [] OTHER                   -> text

Lower(text) ==
  CASE text \in {"OPEN", "Open"}                  -> "open"
    [] text = "DateTime"                          -> "datetime"
    [] text = "BID"                               -> "bid"
    [] text \in {"openInterest", "OPENINTEREST"}  -> "openinterest"
    [] text \in {"bidPrice", "BIDPRICE"}          -> "bidprice"
    [] text = "Symbol"                            -> "symbol"
    [] text = "expirationDate"                    -> "expirationdate"
    [] text = "settlementType"                    -> "settlementtype"
    [] text = "strikePrice"                       -> "strikeprice"
    [] text = "putCall"                           -> "putcall"
    [] text = "bidSize"                           -> "bidsize"
    [] text = "askSize"                           -> "asksize"
    [] text = "lastSize"                          -> "lastsize"
    [] text = "askPrice"                          -> "askprice"
    [] text = "lastPrice"                         -> "lastprice"
    [] text = "quoteTimestamp"                    -> "quotetimestamp"
    [] text = "lastTimestamp"                     -> "lasttimestamp"
    [] OTHER                                      -> text

\* A lookup that compares the name as it is given.
enum_search_by_exact_value(cls, name) ==
  LET ms == MembersOf(cls)
      matches == {i \in 1..Len(ms) : ms[i][2] = name}
  IN  IF matches # {}
        THEN Found(ms[CHOOSE i \in matches : \A j \in matches : i <= j][1])
        ELSE Found("UNSUPPORTED")

\* _enum_case_insensitive_search_by_typecasted_value(cls, name): the first
\* member whose value[0].lower() is name.strip().lower(), else UNSUPPORTED.
enum_case_insensitive_search_by_typecasted_value(cls, name) ==
  LET ms == MembersOf(cls)
      matches == {i \in 1..Len(ms) : Lower(ms[i][2]) = Lower(Strip(name))}
  IN  IF matches # {}
        THEN Found(ms[CHOOSE i \in matches : \A j \in matches : i <= j][1])
        ELSE Found("UNSUPPORTED")

\* {field: field.typecast(raw[raw_field]) for raw_field in raw
\*    if (field := cls(raw_field)) is not cls.UNSUPPORTED}:
\* the record get_price_history, get_option_chain and get_quotes build from a
\* name-keyed payload.
Coerce(cls, raw) ==
  LET FieldOf(k) == enum_case_insensitive_search_by_typecasted_value(cls, k).member
      kept == {k \in DOMAIN raw : FieldOf(k) # "UNSUPPORTED"}
      fields == {FieldOf(k) : k \in kept}
      RawFor(f) == raw[CHOOSE k \in kept : FieldOf(k) = f]
  IN  IF \E f \in fields : Typecast(TypecastOf(cls, f), RawFor(f)).exc # ""
        THEN DecodeRaised("ValueError")
        ELSE Decoded([m \in {Member(cls, f) : f \in fields} |->
                        Typecast(TypecastOf(cls, m[2]), RawFor(m[2])).val])

\* The members of the WS field enumerations, <<member, value>> with the value
\* written as the key of a payload.
WSFields(service) ==
  CASE service = "CHART_EQUITY" ->
         <<<<"SYMBOL", "0">>, <<"OPEN_PRICE", "1">>, <<"HIGH_PRICE", "2">>,
           <<"LOW_PRICE", "3">>, <<"CLOSE_PRICE", "4">>, <<"VOLUME", "5">>,
           <<"SEQUENCE", "6">>, <<"TIMESTAMP", "7">>>>
    [] service = "OPTION" ->
         <<<<"SYMBOL", "0">>, <<"DESCRIPTION", "1">>, <<"BID_PRICE", "2">>,
           <<"ASK_PRICE", "3">>, <<"LAST_PRICE", "4">>, <<"MARK_PRICE", "41">>,
           <<"VOLUME", "8">>, <<"OPEN_INTEREST", "9">>, <<"VOLATILITY", "10">>,
           <<"BID_SIZE", "20">>, <<"ASK_SIZE", "21">>, <<"LAST_SIZE", "22">>,
           <<"DELTA", "32">>>>
    [] service = "QUOTE" ->
         <<<<"SYMBOL", "0">>, <<"BID_PRICE", "1">>, <<"ASK_PRICE", "2">>,
           <<"LAST_PRICE", "3">>, <<"MARK_PRICE", "49">>, <<"BID_SIZE", "4">>,
           <<"ASK_SIZE", "5">>, <<"LAST_SIZE", "9">>, <<"VOLATILITY", "24">>,
           <<"DESCRIPTION", "25">>, <<"QUOTE_TIMESTAMP", "50">>,
           <<"LAST_TIMESTAMP", "51">>>>
    [] service = "TIMESALE_EQUITY" ->
         <<<<"SYMBOL", "0">>, <<"TRADE_TIME", "1">>, <<"LAST_PRICE", "2">>,
           <<"LAST_SIZE", "3">>, <<"LAST_SEQUENCE", "4">>>>

\* The lookups made on their own: cls(name).
LookupArgs ==
  {[fn |-> "_missing_", cls |-> c, name |-> n] : c \in FieldClasses, n \in FieldNames}

(***************************************************************************)
(* The wait for the response to a control request.                         *)
(***************************************************************************)
\* A response as the server sends it: the service, command and requestid of
\* the request it answers, and the status code in its content.
Response(service, command, requestid, code) ==
  [service |-> service, command |-> command, requestid |-> requestid, code |-> code]

Responses ==
  {Response(s, c, i, code) : s \in {"ADMIN", "QUOTE"}, c \in {"LOGIN", "LOGOUT", "SUBS"},
                             i \in {0, 1}, code \in Codes}

\* The frames read during the wait: a heartbeat, or a frame with a response.
WaitFrames == {Frame(TRUE, None, None)} \cup {Frame(FALSE, Some(r), None) : r \in Responses}

\* The most frames the server sends during one wait.
MaxRead == 2

\* `response = {}; while 'response' not in response: response = recv()` over
\* the frames that arrive, from the i-th on: the response the loop ends with,
\* or None while no frame has ended it.
RECURSIVE AwaitResponse(_, _)
AwaitResponse(i, frames) ==
  IF i > Len(frames) THEN None
  ELSE IF ~IsNone(frames[i].response) THEN frames[i].response
  ELSE AwaitResponse(i + 1, frames)

\* The requests waited on: a subscribe request and the logout request.
PendingRequests == {Request(1, "QUOTE", "SUBS", 1), Request(1, "ADMIN", "LOGOUT", 1)}

\* The waits made on their own: a request sent, and the frames that follow.
AwaitArgs ==
  {[fn |-> "recv", request |-> q, frames |-> f] :
     q \in PendingRequests,
     f \in UNION {[1..n -> WaitFrames] : n \in 0..MaxRead}}

\* The frames read during the whole of _subscribe: a heartbeat, the
\* confirmation (accepted or refused), data frames of one entry, and a frame
\* that carries a confirmation and data.
SubscribeFrames ==
  {Frame(TRUE, None, None)}
  \cup {Frame(FALSE, Some(Response("QUOTE", "SUBS", 1, c)), None) : c \in Codes}
  \cup {Frame(FALSE, None, Some(<<Entry(Some("QUOTE"), Some(Payload(i, "")))>>)) : i \in PayloadIds}
  \cup {Frame(FALSE, Some(Response("QUOTE", "SUBS", 1, 0)),
              Some(<<Entry(Some("QUOTE"), Some(Payload(1, "")))>>))}

\* The most frames the server sends while _subscribe runs.
MaxWait == 3

\* `response = {}; while 'data' not in response: response = recv()` and
\* `return response['data'][0]` over the frames that arrive, from the i-th on:
\* the entry returned, or None while no frame has ended the loop.
RECURSIVE AwaitData(_, _)
AwaitData(i, frames) ==
  IF i > Len(frames) THEN None
  ELSE IF ~IsNone(frames[i].data) THEN Some(Val(frames[i].data)[1])
  ELSE AwaitData(i + 1, frames)

\* The place of the frame that ends the loop that waits for the response, or
\* 0 while none has.
ConfirmedAt(frames) ==
  LET with == {i \in 1..Len(frames) : ~IsNone(AwaitResponse(i, SubSeq(frames, 1, i)))}
  IN  IF with = {} THEN 0 ELSE CHOOSE i \in with : \A k \in with : i <= k

\* A _subscribe that returns the first data it reads, confirmed or not.
subscribe_unconfirmed(frames) ==
  AwaitData(1, frames)

\* _subscribe after its send(): the loop that waits for the response, then,
\* starting from an empty response, the loop that waits for data.
subscribe(frames) ==
  IF ConfirmedAt(frames) = 0 THEN None
  ELSE AwaitData(ConfirmedAt(frames) + 1, frames)

\* The runs of _subscribe made on their own: the frames that follow the request.
SubscribeArgs ==
  {[fn |-> "_subscribe", frames |-> f] :
     f \in UNION {[1..n -> SubscribeFrames] : n \in 0..MaxWait}}

(***************************************************************************)
(* The decoding, lookup and wait functions, called on their own.           *)
(***************************************************************************)
session == <<pc, ctx, ws, reg, conn, nconn, flags_done, connLoc, subLoc, sent, calls,
             lastFrame, discarded, result, closeCalled>>

FieldArgs == DistillArgs \cup LookupArgs \cup AwaitArgs \cup SubscribeArgs

FieldInit ==
  /\ NoSession
  /\ arg \in FieldArgs
  /\ ret = None
  /\ other = NoOther

\* _ws_distill_data builds the record of one element of an entry's content.
distill_record ==
  /\ IsNone(ret)
  /\ arg.fn = "_ws_distill_data"
  /\ ret' = Some(DistillRecord(arg.service, arg.bar))
  /\ UNCHANGED <<arg, other, session>>

\* cls(name) for a name that is no value of cls: cls._missing_(name).
lookup_name ==
  /\ IsNone(ret)
  /\ arg.fn = "_missing_"
  /\ ret' = Some(enum_case_insensitive_search_by_typecasted_value(arg.cls, arg.name))
  /\ UNCHANGED <<arg, other, session>>

\* The loop of _subscribe and of _disconnect that waits for the response.
await_response ==
  /\ IsNone(ret)
  /\ arg.fn = "recv"
  /\ ret' = Some([exc |-> "", response |-> AwaitResponse(1, arg.frames)])
  /\ UNCHANGED <<arg, other, session>>

\* _subscribe, run until it returns or has read every frame sent.
subscribe_run ==
  /\ IsNone(ret)
  /\ arg.fn = "_subscribe"
  /\ ret' = Some([exc |-> "", data |-> subscribe(arg.frames)])
  /\ UNCHANGED <<arg, other, session>>

FieldNext ==
  \/ distill_record
  \/ lookup_name
  \/ await_response
  \/ subscribe_run

FieldSpec == FieldInit /\ [][FieldNext]_vars

(***************************************************************************)
(* Properties.                                                             *)
(***************************************************************************)
\* ws_listen has just made a pass of its loop body over the frame in lastFrame.
AfterPass ==
  /\ ~IsNone(lastFrame)
  /\ sent = {}
  /\ pc = "listen_top" \/ (pc = "idle" /\ result.call = "ws_listen")

\* The frame of that pass is one the loop treats as data.
DataPass ==
  /\ AfterPass
  /\ ~Val(lastFrame).notify
  /\ IsNone(Val(lastFrame).response)
  /\ ~IsNone(Val(lastFrame).data)

\* A subscribe call by the caller has just ended.
AfterSubscribe == pc = "idle" /\ result.call = "subscribe"

\* The registry entry of the service of the current (or last) _ws_subscribe.
EntryNow == IF subLoc.service \in DOMAIN reg THEN Some(reg[subLoc.service]) ELSE None

\* C1: when ws_listen is back at the top of its loop after a reconnect whose
\* login was accepted, the subscribe request of every service in the registry
\* has been sent on the new connection.  (lastFrame is the login response when
\* the replay sent nothing.)
C1_ReplaysEveryDomain ==
  (/\ pc = "listen_top"
   /\ Request(ws.websocket, "ADMIN", "LOGIN", 0) \in sent
   /\ ~IsNone(lastFrame)
   /\ Val(lastFrame).response = Some(0))
  => \A s \in DOMAIN reg : Request(ws.websocket, s, "SUBS", 1) \in sent

\* C2: while a subscribe call by the caller waits, no data entry of another,
\* already subscribed service is consumed without its callbacks being called.
C2_NoDataDroppedWhileSubscribing ==
  (ctx = "caller" /\ subLoc.service # "") => discarded \ {subLoc.service} = {}

\* C3: ws_connect returns a handle only when the login response carries
\* status code zero.
C3_RejectedLoginReturnsNoHandle ==
  (pc = "idle" /\ result = [call |-> "ws_connect", out |-> "returned"])
  => Val(lastFrame).response = Some(0)

\* C4: an exception raised by a callback never leaves ws_listen.
C4_CallbackFailureCaught ==
  ~(result.call = "ws_listen" /\ result.out = "CallbackError")

\* An entry whose declared service has no descriptor in the registry.
NoDescriptor(entry, regv) ==
  \/ IsNone(entry.service)
  \/ \A s \in DOMAIN regv : StripLower(s) # StripLower(Val(entry.service))

\* C5: a pass over a data frame none of whose entries has a descriptor calls
\* no callback and goes on with the loop.
C5_UnsubscribedEntriesSkipped ==
  (/\ DataPass
   /\ \A i \in 1..Len(Val(Val(lastFrame).data)) :
        NoDescriptor(Val(Val(lastFrame).data)[i], reg))
  => (calls = <<>> /\ pc = "listen_top")

\* The frame of the pass holds one entry, of a subscribed service, that
\* decodes to records; the registration has as many contexts as callbacks or
\* none at all; no callback raised.
OneDecodedEntry ==
  /\ DataPass
  /\ Len(Val(Val(lastFrame).data)) = 1
  /\ LET entry == Val(Val(lastFrame).data)[1]
         dist == ws_distill_data(entry)
     IN  /\ dist.exc = "" /\ ~dist.none
         /\ dist.svc \in DOMAIN reg
         /\ \/ IsNone(reg[dist.svc].cb_data)
            \/ Len(Val(reg[dist.svc].cb_data)) = Len(reg[dist.svc].cb_functions)
  /\ result.out # "CallbackError"

\* C6: such a pass calls every callback of the service once, in registration
\* order, each with the context registered at its position.
C6_EachCallbackOnceInOrder ==
  OneDecodedEntry =>
    LET desc == reg[ws_distill_data(Val(Val(lastFrame).data)[1]).svc]
    IN  /\ Len(calls) = Len(desc.cb_functions)
        /\ \A i \in 1..Len(calls) :
             /\ calls[i].cb = desc.cb_functions[i]
             /\ ~IsNone(desc.cb_data) => calls[i].ctx = Val(desc.cb_data)[i]

\* C7: after a subscribe call has returned, the registry entry of its service
\* is exactly the descriptor built from the call's arguments.
C7_EntryIsWhatWasPassed ==
  (AfterSubscribe /\ result.out = "returned") => EntryNow = Some(subLoc.desc)

\* C7 occurs: a subscribe call has returned for a service that had another
\* entry, with more callbacks and contexts and another symbol list or not.
C7_Replaced ==
  /\ AfterSubscribe /\ result.out = "returned"
  /\ subLoc.code = Some(0)
  /\ ~IsNone(subLoc.prev)
  /\ Val(subLoc.prev) # subLoc.desc
  /\ Len(Val(subLoc.prev).cb_functions) > Len(subLoc.desc.cb_functions)

\* C8: a subscribe call whose confirmation carries a non-zero status code
\* does not return as a successful call does, and leaves the entry of its
\* service as it was.
C8_RejectedSubscribeStoresNothing ==
  (/\ AfterSubscribe
   /\ ~IsNone(subLoc.code) /\ Val(subLoc.code) # 0)
  => (result.out # "returned" /\ EntryNow = subLoc.prev)

\* C9: when ws_disconnect has ended, the connection is closed.
C9_CloseTearsDown ==
  (pc = "idle" /\ result.call = "ws_disconnect") => ~IsOpen

\* C10: once ws_disconnect has been called, ws_listen neither reconnects, nor
\* logs in again, nor replays subscriptions.
C10_NoReconnectAfterClose ==
  (closeCalled /\ ctx = "listen")
  => pc \notin {"reconnect", "connect_wait", "sub_wait_resp", "sub_wait_data"}

\* C11: a connect attempt that fails while ws_listen reconnects does not end
\* ws_listen: the failure of websockets.connect never leaves the receive loop.
C11_FailedAttemptIsRetried ==
  ~(pc = "idle" /\ result = [call |-> "ws_listen", out |-> "OSError"])

\* C12: when the login of a reconnect is answered with a non-zero status code,
\* ws_listen neither replays a subscription nor returns to its loop.
\* (lastFrame is the login response in the state that follows its arrival.)
C12_RejectedReloginCloses ==
  (/\ ctx = "listen"
   /\ Request(ws.websocket, "ADMIN", "LOGIN", 0) \in sent
   /\ ~IsNone(lastFrame)
   /\ ~IsNone(Val(lastFrame).response)
   /\ Val(Val(lastFrame).response) # 0)
  => pc \notin {"listen_top", "sub_wait_resp"}

\* C13: a replay that fails because the connection closes while its
\* confirmation or first data frame is awaited does not end ws_listen.
C13_FailedReplayKeepsSession ==
  ~(/\ pc = "idle"
    /\ result.call = "ws_listen"
    /\ result.out \in Closures
    /\ subLoc.replay > 0)

\* C14: a pass of ws_listen's loop over a frame that carries notify, or
\* response, or no data (whatever else the frame carries) calls no callback,
\* leaves the registry as it was and goes back to the top of the loop.
C14_ClassifiedByFirstMarker ==
  [][(/\ pc = "listen_recv"
      /\ ~IsNone(lastFrame')
      /\ \/ Val(lastFrame').notify
         \/ ~IsNone(Val(lastFrame').response)
         \/ IsNone(Val(lastFrame').data))
     => (calls' = <<>> /\ reg' = reg /\ pc' = "listen_top" /\ result' = NoResult)]_vars

\* C14 occurs: the pass was over a heartbeat that also carries an entry of a
\* subscribed service, one that a data frame would have delivered.
C14_HeartbeatWithData ==
  /\ AfterPass
  /\ Val(lastFrame).notify
  /\ ~IsNone(Val(lastFrame).data)
  /\ DispatchFrom(1, Val(Val(lastFrame).data), reg, {}).calls # <<>>
  /\ calls = <<>>
  /\ pc = "listen_top"

\* C15: when a confirmed subscribe call with process_first_data set, made with
\* a context for each callback, has returned after calling callbacks on the
\* first data frame, the callbacks called are those passed to the call, each
\* once, in order, each with the context passed for it.
C15_FirstDataToNewConsumers ==
  (/\ AfterSubscribe /\ result.out = "returned"
   /\ subLoc.code = Some(0)
   /\ subLoc.desc.process_first_data
   /\ ~IsNone(subLoc.desc.cb_data)
   /\ Len(Val(subLoc.desc.cb_data)) = Len(subLoc.desc.cb_functions)
   /\ calls # <<>>)
  => /\ Len(calls) = Len(subLoc.desc.cb_functions)
     /\ \A i \in 1..Len(calls) :
          /\ calls[i].cb = subLoc.desc.cb_functions[i]
          /\ calls[i].ctx = Val(subLoc.desc.cb_data)[i]

\* C16: once flags['done'] is set while ws_listen waits in recv() on an open
\* connection, ws_listen eventually ends.
C16_DoneEndsListen ==
  (ctx = "listen" /\ flags_done /\ pc = "listen_recv" /\ IsOpen) ~> (pc = "idle")

\* C17: no subscribe request is sent by a call made right after ws_connect has
\* returned on a login answered with a non-zero status code, nor by a call
\* made after ws_disconnect was called; such a call leaves the registry as it
\* was.
C17_SubscribeOnlyWhileActive ==
  [][(/\ pc = "idle"
      /\ ctx' = "caller"
      /\ \/ closeCalled
         \/ /\ result = [call |-> "ws_connect", out |-> "returned"]
            /\ ~IsNone(lastFrame)
            /\ Val(lastFrame).response # Some(0))
     => (reg' = reg /\ \A r \in sent' : r.command # "SUBS")]_vars

\* C18: the registry never holds a descriptor with a list of contexts whose
\* length differs from the number of its callbacks.
C18_ArityCheckedAtSubscribe ==
  \A s \in DOMAIN reg :
     ~IsNone(reg[s].cb_data) => Len(Val(reg[s].cb_data)) = Len(reg[s].cb_functions)

\* Entry k of the frame of the pass is of a subscribed service and holds a
\* value that cannot be coerced.
UncoercibleAt(k) ==
  LET entry == Val(Val(lastFrame).data)[k]
  IN  /\ ~IsNone(entry.service) /\ ~IsNone(entry.content)
      /\ WSServiceOf(Val(entry.service)).exc = ""
      /\ WSServiceOf(Val(entry.service)).member \in DOMAIN reg
      /\ ~Val(entry.content).coercible

\* C19: a pass over a data frame one of whose entries holds a value that
\* cannot be coerced does not end ws_listen with the coercion error; when the
\* pass goes back to the loop, the callbacks have been called on every other
\* entry that decodes.
C19_OnlyTheRecordIsDropped ==
  (DataPass /\ \E k \in 1..Len(Val(Val(lastFrame).data)) : UncoercibleAt(k))
  => /\ result.out # "ValueError"
     /\ pc = "listen_top" => DroppedFrom(1, Val(Val(lastFrame).data), reg)
                               \subseteq {calls[j].svc : j \in 1..Len(calls)}

\* C20: when a pass of ws_listen decodes an account-activity entry, a message
\* type that is ORDERENTRYREQUEST, ORDERFILL, UROUT or ORDERREJECTION once
\* trimmed and upper-cased yields a record, any other yields none, and neither
\* raises.
C20_AccountActivityDecodes ==
  (/\ DataPass
   /\ "ACCT_ACTIVITY" \in DOMAIN reg
   /\ Val(Val(lastFrame).data)[1].service = Some("ACCT_ACTIVITY")
   /\ ~IsNone(Val(Val(lastFrame).data)[1].content))
  => LET entry == Val(Val(lastFrame).data)[1]
         dist == ws_distill_data(entry)
     IN  /\ dist.exc = ""
         /\ result.out # "AttributeError: OrderStatus"
         /\ dist.none <=> StripUpper(Val(entry.content).mtype)
                            \notin {"ORDERENTRYREQUEST", "ORDERFILL", "UROUT", "ORDERREJECTION"}

\* The record decoder was called on its own for a CHART_EQUITY, OPTION or
\* QUOTE payload and has ended.
RecordDecoded ==
  /\ ~IsNone(ret)
  /\ arg.fn = "_ws_distill_data"
  /\ arg.service \in {"CHART_EQUITY", "OPTION", "QUOTE"}

\* C21: the record decoded from a CHART_EQUITY, OPTION or QUOTE payload has
\* the symbol, taken from the payload's 'key', and one key for each mapped
\* index the payload holds, that of the index's field, and no other key; no
\* payload raises.
C21_KeysOfPresentMappedIndexes ==
  RecordDecoded =>
    LET cls == FieldClassOf(arg.service)
        map == field_map(arg.service)
    IN  /\ Val(ret).exc = ""
        /\ DOMAIN Val(ret).rec
             = {Member(cls, "SYMBOL")}
               \cup {Member(cls, map[i][2]) : i \in {j \in 1..Len(map) : map[j][1] \in DOMAIN arg.bar}}
        /\ Val(ret).rec[Member(cls, "SYMBOL")] = <<"str", "XYZ">>

\* C21 occurs: a chart payload with open price, high price and timestamp, a
\* key of no field, and without indexes 3, 4 and 5, was decoded to a record of
\* symbol, open price, high price and timestamp.
C21_ChartBarDecoded ==
  /\ RecordDecoded
  /\ arg.service = "CHART_EQUITY"
  /\ DOMAIN arg.bar = {"key", "1", "2", "7", "99"}
  /\ DOMAIN Val(ret).rec = {Member("ChartBarField", n) :
                              n \in {"SYMBOL", "OPEN_PRICE", "HIGH_PRICE", "TIMESTAMP"}}
  /\ Val(ret).rec[Member("ChartBarField", "OPEN_PRICE")] = <<"float", "10.5">>

\* The wire name each name looked up is a spelling of, when case and the
\* spaces around it are ignored; "" for a name that spells none.
SpellingOf(name) ==
  CASE name \in {"open", "OPEN", " Open "}                          -> "open"
    [] name \in {"datetime", "DateTime"}                            -> "datetime"
    [] name \in {"bid", " BID"}                                     -> "bid"
    [] name \in {"openInterest", "OPENINTEREST", "openinterest "}   -> "openInterest"
    [] name \in {"bidPrice", "BIDPRICE", " bidprice"}               -> "bidPrice"
    [] name \in {"symbol", "Symbol "}                               -> "symbol"
    [] OTHER                                                        -> ""

WireNameOf(service, key) ==
  IF key = "key" THEN "symbol"
  ELSE LET ws_members == {i \in 1..Len(WSFields(service)) : WSFields(service)[i][2] = key}
           ms == MembersOf(FieldClassOf(service))
       IN  IF ws_members = {} THEN ""
           ELSE LET name == WSFields(service)[CHOOSE i \in ws_members : TRUE][1]
                    same == {i \in 1..Len(ms) : ms[i][1] = name}
                IN  IF same = {} THEN "" ELSE ms[CHOOSE i \in same : TRUE][2]

\* The name-keyed payload of the event a positional payload tells of.
NamedEquivalent(service, bar) ==
  LET keys == {k \in DOMAIN bar : WireNameOf(service, k) # ""}
  IN  [n \in {WireNameOf(service, k) : k \in keys} |->
         bar[CHOOSE k \in keys : WireNameOf(service, k) = n]]

\* C23: the record decoded from a positional payload has members of the field
\* enumerations of the tda package for keys, those that name lookup finds,
\* and, for the services that have such an enumeration, it equals the record
\* built from the name-keyed payload of the same event.
C23_PositionalEqualsNamed ==
  (~IsNone(ret) /\ arg.fn = "_ws_distill_data" /\ Val(ret).exc = "") =>
    /\ \A k \in DOMAIN Val(ret).rec : k[1] \in FieldClasses
    /\ arg.service \in {"CHART_EQUITY", "OPTION", "QUOTE"}
         => Val(ret) = Coerce(FieldClassOf(arg.service), NamedEquivalent(arg.service, arg.bar))

\* C24: the callbacks called in a pass of ws_listen's loop are called on
\* entries of the frame of that pass, with what that entry decodes to, in the
\* order of the entries in the frame; no consumer is called twice on an entry.
C24_DeliveredInArrivalOrder ==
  AfterPass =>
    /\ \A j \in 1..Len(calls) :
         /\ ~IsNone(Val(lastFrame).data)
         /\ calls[j].entry \in 1..Len(Val(Val(lastFrame).data))
         /\ LET dist == ws_distill_data(Val(Val(lastFrame).data)[calls[j].entry])
            IN  calls[j].svc = dist.svc /\ calls[j].id = dist.id
    /\ \A i, j \in 1..Len(calls) :
         i < j => /\ calls[i].entry <= calls[j].entry
                  /\ calls[i].entry = calls[j].entry
                       => <<calls[i].cb, calls[i].ctx>> # <<calls[j].cb, calls[j].ctx>>

\* C24 occurs: a frame with two quote entries was delivered to two consumers,
\* the first entry to both, then the second to both.
C24_TwoEntriesTwoConsumers ==
  /\ AfterPass
  /\ Len(calls) = 4
  /\ <<calls[1].id, calls[2].id, calls[3].id, calls[4].id>> = <<1, 1, 2, 2>>
  /\ <<calls[1].cb, calls[2].cb, calls[3].cb, calls[4].cb>> = <<"g", "f", "g", "f">>

\* C25: the two threads are never both between the sending of a subscribe
\* request and the end of their wait for its response and first data.
C25_OneControlRequestPending ==
  ~(pc \in Waits /\ other.pc \in Waits)

C27_CloseEmptiesRegistry ==
  (pc = "idle" /\ result = [call |-> "ws_disconnect", out |-> "returned"]) =>
    DOMAIN reg = {}

\* C28: the control requests a call has sent on one connection carry
\* different request ids.
C28_RequestIdsDiffer ==
  \A r1, r2 \in sent : (r1 # r2 /\ r1.conn = r2.conn) => r1.requestid # r2.requestid

\* C29: the response that ends the wait of a control call answers the request
\* the call sent: it has the request's service and command, or its requestid.
C29_CompletedByItsResponse ==
  (~IsNone(ret) /\ arg.fn = "recv" /\ ~IsNone(Val(ret).response)) =>
    LET r == Val(Val(ret).response)
    IN  \/ r.service = arg.request.service /\ r.command = arg.request.command
        \/ r.requestid = arg.request.requestid

\* C30: a step of a subscribe call (not one in which someone else sets
\* flags['done']) calls callbacks only when the call's process_first_data is
\* true, and then on a first entry that decoded to records; a call with the
\* flag false calls none.
C30_NoFlagNoCallback ==
  [][((pc \in Waits \/ pc' = "sub_wait_resp") /\ (flags_done' => flags_done)) =>
       (calls' # <<>> =>
          /\ pc = "sub_wait_data"
          /\ subLoc.desc.process_first_data
          /\ \A i \in 1..Len(calls') : calls'[i].entry = 1 /\ calls'[i].svc \in Domains)]_vars

\* C30 occurs: with QUOTE subscribed, ACCT_ACTIVITY was subscribed with the
\* flag false; the first data frame of the call held a quote that decodes to
\* a record, and the call returned without a callback called.
C30_FirstDataNotDelivered ==
  /\ AfterSubscribe
  /\ result.out = "returned"
  /\ subLoc.service = "ACCT_ACTIVITY"
  /\ ~subLoc.desc.process_first_data
  /\ "QUOTE" \in discarded
  /\ calls = <<>>

\* C31: every callback call of a step, of ws_listen's loop or of _ws_subscribe
\* on its first data, is made with the records of an entry of some service,
\* and the callback and its context stand at one place of the descriptor the
\* handle holds for that service; in the loop that service is the one the
\* entry declares.
C31_CalledWithOwnDomain ==
  \A i \in 1..Len(calls) :
    LET c == calls[i]
    IN  /\ c.svc \in DOMAIN reg
        /\ \E j \in 1..Len(reg[c.svc].cb_functions) :
             /\ reg[c.svc].cb_functions[j] = c.cb
             /\ ~IsNone(reg[c.svc].cb_data)
             /\ j <= Len(Val(reg[c.svc].cb_data))
             /\ Val(reg[c.svc].cb_data)[j] = c.ctx
        /\ ~IsNone(lastFrame) =>
             WSServiceOf(Val(Val(Val(lastFrame).data)[c.entry].service)) = Found(c.svc)

\* C31 occurs: a subscribe call to QUOTE with callbacks g and f has returned;
\* its first data frame held a CHART_EQUITY entry, and the callback of
\* CHART_EQUITY was called with it.
C31_FirstDataOfAnotherDomain ==
  /\ AfterSubscribe
  /\ subLoc.service = "QUOTE"
  /\ subLoc.desc.cb_functions = <<"g", "f">>
  /\ Len(calls) = 1
  /\ calls[1].svc = "CHART_EQUITY"
  /\ calls[1].cb = "f"

\* C32: _subscribe returns exactly when a frame with a response has arrived
\* and a frame with data has arrived after it; what it returns is the first
\* entry of the first such data frame.  Every other frame read, a data frame
\* that comes before the response and the data of the frame that carries the
\* response among them, is returned to no one.
C32_ReturnsAfterResponseThenData ==
  (~IsNone(ret) /\ arg.fn = "_subscribe") =>
    LET f == arg.frames
        resp == {i \in 1..Len(f) : ~IsNone(f[i].response)}
        ends == {p \in resp \X (1..Len(f)) :
                   /\ \A k \in resp : p[1] <= k
                   /\ p[2] > p[1]
                   /\ ~IsNone(f[p[2]].data)
                   /\ \A k \in (p[1] + 1)..(p[2] - 1) : IsNone(f[k].data)}
    IN  /\ IsNone(Val(ret).data) <=> ends = {}
        /\ \A p \in ends : Val(ret).data = Some(Val(f[p[2]].data)[1])

\* C32 occurs: a data frame, the confirmation with data of its own, and a
\* second data frame arrived; _subscribe returned the entry of the last.
C32_DataBeforeAndWithResponse ==
  /\ ~IsNone(ret) /\ arg.fn = "_subscribe"
  /\ Len(arg.frames) = 3
  /\ ~IsNone(arg.frames[1].data) /\ IsNone(arg.frames[1].response)
  /\ ~IsNone(arg.frames[2].data) /\ ~IsNone(arg.frames[2].response)
  /\ Val(ret).data = Some(Entry(Some("QUOTE"), Some(Payload(2, ""))))

C34_OnlyOwnEntryChanges ==
  [][(pc \in Waits \/ (pc = "idle" /\ (pc' = "sub_wait_resp" \/ result'.call = "subscribe")))
       => LET service == IF pc = "idle" THEN subLoc'.service ELSE subLoc.service
          IN  /\ \A s \in DOMAIN reg \ {service} : s \in DOMAIN reg' /\ reg'[s] = reg[s]
              /\ DOMAIN reg' \subseteq DOMAIN reg \cup {service}
              /\ ws' = ws]_vars

\* C34 occurs: with CHART_EQUITY subscribed, a subscribe call for QUOTE has
\* returned and put another descriptor in the place of QUOTE's.
C34_ReplacedBesideAnother ==
  /\ AfterSubscribe /\ result.out = "returned"
  /\ subLoc.service = "QUOTE"
  /\ DOMAIN reg = {"CHART_EQUITY", "QUOTE"}
  /\ ~IsNone(subLoc.prev)
  /\ Val(subLoc.prev) # subLoc.desc
  /\ reg["QUOTE"] = subLoc.desc

\* Entry k of the frame of the pass names a subscribed service.
Subscribed(k) ==
  LET entry == Val(Val(lastFrame).data)[k]
  IN  /\ ~IsNone(entry.service)
      /\ WSServiceOf(Val(entry.service)).exc = ""
      /\ WSServiceOf(Val(entry.service)).member \in DOMAIN reg

\* Entry k names a subscribed service and decodes to no record: it has no
\* content, or it is an account activity of a message type that is left out.
NoRecordAt(k) ==
  /\ Subscribed(k)
  /\ ws_distill_data(Val(Val(lastFrame).data)[k]) = DistillNone

\* C35: in a pass of ws_listen's loop over a data frame with an entry of a
\* subscribed service that decodes to no record, no callback is called for
\* that entry, and, when the pass has gone back to the top of the loop, every
\* other entry of a subscribed service that decodes to records has had the
\* callbacks of its service called.
C35_NoRecordNoCallRestProcessed ==
  (DataPass /\ \E k \in 1..Len(Val(Val(lastFrame).data)) : NoRecordAt(k)) =>
    LET data == Val(Val(lastFrame).data)
    IN  /\ \A i \in 1..Len(calls) : ~NoRecordAt(calls[i].entry)
        /\ pc = "listen_top" =>
             \A k \in 1..Len(data) :
               (/\ Subscribed(k)
                /\ ws_distill_data(data[k]).exc = ""
                /\ ~ws_distill_data(data[k]).none) =>
                 LET desc == reg[ws_distill_data(data[k]).svc]
                 IN  /\ Len(SelectSeq(calls, LAMBDA c : c.entry = k)) = Len(desc.cb_functions)
                     /\ \A i \in 1..Len(desc.cb_functions) :
                          SelectSeq(calls, LAMBDA c : c.entry = k)[i].cb = desc.cb_functions[i]

\* C35 occurs: with QUOTE and CHART_EQUITY subscribed, a frame came with a
\* QUOTE entry without content ahead of a CHART_EQUITY entry; the callback of
\* CHART_EQUITY was called for the second entry and none for the first.
C35_EmptyEntryThenChart ==
  /\ DataPass
  /\ pc = "listen_top"
  /\ Len(Val(Val(lastFrame).data)) = 2
  /\ NoRecordAt(1)
  /\ Val(Val(lastFrame).data)[2].service = Some("CHART_EQUITY")
  /\ Subscribed(2)
  /\ Len(calls) = 1
  /\ calls[1].entry = 2
  /\ calls[1].svc = "CHART_EQUITY"

====
